---- MODULE Spec2Model ----
(***************************************************************************)
(* Model of downloader.py: the weather pipeline (get_weather_ids,          *)
(* get_weather, weather_worker, download_weather), the flights step        *)
(* (download_flights) and the entry point download_all.                    *)
(*                                                                         *)
(* Stations, timestamps and measurement values are small integers; the     *)
(* file system, the thread pool and the main thread's position are the     *)
(* state.  The two remote services and the disk are the environment: what  *)
(* they answer is chosen with \E in the action that performs the call.     *)
(***************************************************************************)
EXTENDS Integers, Sequences, FiniteSets, TLC

(***************************************************************************)
(* Bounds of the model.                                                    *)
(***************************************************************************)
\* networks of the pipeline specification (the source enumerates 51)
NumNetworks == 2
\* groups submitted beyond the pool size in the pool specification
PoolExtra == 1
\* rows of a payload handed to get_weather in the parsing specification
MaxRows == 2
\* timestamps 1..MaxDate
MaxDate == 2
\* networks of the specification of all three entry points
AllNetworks == 1

(***************************************************************************)
(* Program constants.                                                      *)
(***************************************************************************)
\* ThreadPoolExecutor(max_workers=10)
max_workers == 10
\* the missing-value marker (NaN); parsed measurements are >= 0
NaN == -1

float_cols == {"tmpf", "relh", "sped", "mslp", "p01i", "vsby", "gust_mph"}

\* the columns get_weather reads after the two renames
ExpectedCols == {"station", "date"} \cup float_cols

\* header of a well-formed payload as the service sends it
RawHeader == {"station", "valid", "tmpf", " relh", " sped", " mslp", " p01i",
              " vsby", " gust_mph"}

\* header of a payload without the expected columns (an error page)
BadHeader == {"ERROR"}

(***************************************************************************)
(* Column renames of get_weather.                                          *)
(***************************************************************************)
RenameValid(c) == IF c = "valid" THEN "date" ELSE c

StrStrip(c) ==
    CASE c = " relh" -> "relh"
      [] c = " sped" -> "sped"
      [] c = " mslp" -> "mslp"
      [] c = " p01i" -> "p01i"
      [] c = " vsby" -> "vsby"
      [] c = " gust_mph" -> "gust_mph"
      [] OTHER -> c

Columns(header) == {StrStrip(RenameValid(c)) : c \in header}

(***************************************************************************)
(* Cells.  A token is the text of a cell; a value is what pandas holds.    *)
(***************************************************************************)
NumericTokens == {"1", "2"}

\* float(token) for a numeric token
NumOfToken(t) == IF t = "1" THEN 1 ELSE 2

\* read_csv followed by to_numeric with invalid values mapped to NaN
CoerceCell(t) == IF t \in NumericTokens THEN NumOfToken(t) ELSE NaN

\* to_csv writes NaN as the empty field and a number as its digits
FormatCell(v) == IF v = NaN THEN "" ELSE IF v = 1 THEN "1" ELSE "2"

\* read_csv of an intermediate file: the empty field is NaN
ParseCell(t) == IF t \in NumericTokens THEN NumOfToken(t) ELSE NaN

(***************************************************************************)
(* Sorting by the (station, date) index.                                   *)
(***************************************************************************)
KeyLess(a, b) ==
    \/ a.station < b.station
    \/ a.station = b.station /\ a.date < b.date

KeyLeq(a, b) == ~KeyLess(b, a)

RECURSIVE InsertRow(_, _)
\* r is placed after every row whose key is not greater: the sort is stable
InsertRow(r, s) ==
    IF s = <<>> THEN <<r>>
    ELSE IF KeyLess(r, Head(s)) THEN <<r>> \o s
    ELSE <<Head(s)>> \o InsertRow(r, Tail(s))

RECURSIVE SortFrom(_, _)
SortFrom(s, acc) ==
    IF s = <<>> THEN acc ELSE SortFrom(Tail(s), InsertRow(Head(s), acc))

SortIndexOff(t) == t

\* DataFrame.sort_index()
SortIndex(t) == SortFrom(t, <<>>)

(***************************************************************************)
(* get_weather: parse a payload into a table, or raise.                    *)
(***************************************************************************)
CoerceRow(r) ==
    [station |-> r.station, date |-> r.date,
     vals |-> [c \in float_cols |-> CoerceCell(r.cells[c])]]

\* The call is pd.to_numeric(errors="corce").  A pandas build that checks
\* the value of `errors` raises ValueError on it, a build that does not
\* treats every value other than "ignore" and "raise" as coercion.
\* DataFrame.apply does not call the function on a frame without rows.
ToNumericRaises(strict, rows) == strict /\ rows # <<>>

Raised(e) == [ok |-> FALSE, err |-> e, rows |-> <<>>]

Returned(t) == [ok |-> TRUE, err |-> "none", rows |-> t]

get_weather(payload, strict) ==
    IF ~(ExpectedCols \subseteq Columns(payload.header))
    THEN Raised("KeyError")
    ELSE IF ToNumericRaises(strict, payload.rows)
    THEN Raised("ValueError")
    ELSE Returned([i \in 1..Len(payload.rows) |->
                      CoerceRow(SortIndex(payload.rows)[i])])

(***************************************************************************)
(* The intermediate files: to_csv and read_csv.                            *)
(***************************************************************************)
FormatRow(r) ==
    [station |-> r.station, date |-> r.date,
     cells |-> [c \in float_cols |-> FormatCell(r.vals[c])]]

ParseRow(r) ==
    [station |-> r.station, date |-> r.date,
     vals |-> [c \in float_cols |-> ParseCell(r.cells[c])]]

to_csv(t) == [i \in 1..Len(t) |-> FormatRow(t[i])]

read_csv(f) == [i \in 1..Len(f) |-> ParseRow(f[i])]

NoFile == [exists |-> FALSE, rows |-> <<>>]

File(rows) == [exists |-> TRUE, rows |-> rows]

(***************************************************************************)
(* State.                                                                  *)
(***************************************************************************)
VARIABLES
    networks,     \* download_weather: the networks enumerated (line 59)
    faults,       \* environment: whether services and disk may misbehave
    strict,       \* environment: the pandas build rejects errors="corce"
    storeFile,    \* disk: data/weather.h5
    csvFiles,     \* disk: data/weather/<network>.csv, per network
    zipFile,      \* disk: data/flights.csv.zip exists
    csvFlights,   \* disk: the CSV member extracted under data/
    h5Flights,    \* disk: data/flights.h5 exists
    entry,        \* the function the caller invoked
    pc,           \* position of the main thread
    idx,          \* download_weather: next network of the comprehension
    ids,          \* download_weather: station ids fetched, per network
    nsub,         \* download_weather: len(fs) so far
    tasks,        \* the executor's futures, per group: state or outcome
    seen,         \* download_weather: i of the as_completed loop
    pbar_n,       \* tqdm: the progress counter
    pbar_total,   \* tqdm: total
    ret,          \* what the running or last call returned or raised
    dirCalls,     \* requests sent to the station directory by this call
    wxCalls,      \* requests sent to the weather service by this call
    posts,        \* POSTs sent to the flight portal by this call
    atStart,      \* which cached artifacts existed when this call began
    gwIn,         \* parsing specification: the payload handed to get_weather
    gwOut         \* parsing specification: what get_weather gave back

vars == <<networks, faults, strict, storeFile, csvFiles, zipFile, csvFlights,
          h5Flights, entry, pc, idx, ids, nsub, tasks, seen, pbar_n,
          pbar_total, ret, dirCalls, wxCalls, posts, atStart, gwIn, gwOut>>

diskVars == <<storeFile, csvFiles, zipFile, csvFlights, h5Flights>>

envVars == <<networks, faults, strict, gwIn, gwOut>>

weatherLocals == <<idx, ids, nsub, tasks, seen, pbar_n, pbar_total>>

(***************************************************************************)
(* Values.                                                                 *)
(***************************************************************************)
NoResult == [kind |-> "none", err |-> "none", rows |-> <<>>]

Raise(e) == [kind |-> "raise", err |-> e, rows |-> <<>>]

Return(t) == [kind |-> "return", err |-> "none", rows |-> t]

NoArtifacts == [store |-> FALSE, zip |-> FALSE, csv |-> FALSE, h5 |-> FALSE]

\* the stations the directory lists for a network
StationsOf(n) == {2 * n - 1, 2 * n}

AllStations == UNION {StationsOf(n) : n \in networks}

MinOf(S) == CHOOSE x \in S : \A y \in S : x <= y

MaxOf(S) == CHOOSE x \in S : \A y \in S : y <= x

\* a row of a payload: every measurement is token tok, except "M" in bad
RawRow(s, d, tok, bad) ==
    [station |-> s, date |-> d,
     cells |-> [c \in float_cols |-> IF c \in bad THEN "M" ELSE tok]]

Payload(rows) == [ok |-> TRUE, header |-> RawHeader, rows |-> rows]

ErrorPage == [ok |-> TRUE, header |-> BadHeader, rows |-> <<>>]

NoAnswer == [ok |-> FALSE, header |-> {}, rows |-> <<>>]

(***************************************************************************)
(* The environment's answers.                                              *)
(***************************************************************************)
\* the directory's answer for network n: its stations, none, or a failure
DirAnswers(n) ==
    IF faults
    THEN {[ok |-> TRUE, stations |-> StationsOf(n)],
          [ok |-> TRUE, stations |-> {}],
          [ok |-> FALSE, stations |-> {}]}
    ELSE {[ok |-> TRUE, stations |-> StationsOf(n)]}

\* the weather service's answer to a request for stations S
WxAnswers(S) ==
    LET lo == MinOf(S)
        hi == MaxOf(S)
        good == Payload(<<RawRow(hi, 1, "1", {}), RawRow(lo, 1, "1", {})>>)
    IN  IF faults
        THEN {good,
              Payload(<<>>),
              Payload(<<RawRow(lo, 2, "2", {"tmpf"})>>),
              Payload(<<RawRow(lo, 1, "1", {}), RawRow(lo, 1, "2", {})>>),
              ErrorPage,
              NoAnswer}
             \cup {Payload(<<RawRow(f, 1, "1", {})>>) :
                     f \in {x \in AllStations \ S :
                              \A y \in AllStations \ S : x <= y}}
        ELSE {good}

\* whether a read or write of the disk, or the POST to the portal, succeeds
IoOutcomes == IF faults THEN {TRUE, FALSE} ELSE {TRUE}

(***************************************************************************)
(* The thread pool.                                                        *)
(***************************************************************************)
\* ids.groupby('network'): the networks that have stations, in key order
Groups == {n \in networks : ids[n] # {}}

Running == {g \in networks : tasks[g] = "running"}

\* the futures that are done: they hold "ok" or the task's exception
Finished == {g \in networks : tasks[g] \notin {"none", "queued", "running"}}

\* the group submitted after k groups have been
NextGroup(k) == CHOOSE g \in Groups : Cardinality({h \in Groups : h < g}) = k

(***************************************************************************)
(* glob.glob('data/weather/*.csv') lists the files in no particular order. *)
(* The order only shows in the sorted result when two files hold the same  *)
(* (station, date) key, so only then is every order enumerated.            *)
(***************************************************************************)
FileKeys(n) ==
    {<<csvFiles[n].rows[i].station, csvFiles[n].rows[i].date>> :
        i \in 1..Len(csvFiles[n].rows)}

Present == {n \in networks : csvFiles[n].exists}

Orders(S) ==
    {o \in [1..Cardinality(S) -> S] : \A i, j \in DOMAIN o : i # j => o[i] # o[j]}

RECURSIVE AscendingSeq(_)
AscendingSeq(S) ==
    IF S = {} THEN <<>> ELSE <<MinOf(S)>> \o AscendingSeq(S \ {MinOf(S)})

GlobOrders ==
    IF \E m, n \in Present : m # n /\ FileKeys(m) \cap FileKeys(n) # {}
    THEN Orders(Present)
    ELSE {AscendingSeq(Present)}

RECURSIVE Concat(_)
\* pd.concat of the files read back, in the order o
Concat(o) ==
    IF o = <<>> THEN <<>> ELSE read_csv(csvFiles[Head(o)].rows) \o Concat(Tail(o))

(***************************************************************************)
(* Calls.  A caller may invoke any of the three functions once the         *)
(* previous call has returned or raised.                                   *)
(***************************************************************************)
AtRest ==
    \/ pc \in {"idle", "w_raised", "f_done", "f_raised"}
    \/ pc = "w_done" /\ entry # "download_all"

Artifacts ==
    [store |-> storeFile.exists, zip |-> zipFile, csv |-> csvFlights,
     h5 |-> h5Flights]

\* download_weather(): lines 54-59, the locals of a fresh call
EnterWeather ==
    /\ pc' = "ids"
    /\ idx' = 1
    /\ ids' = [n \in networks |-> {}]
    /\ nsub' = 0
    /\ tasks' = [n \in networks |-> "none"]
    /\ seen' = 0
    /\ pbar_n' = 0
    /\ pbar_total' = 0
    /\ ret' = NoResult
    /\ dirCalls' = 0
    /\ wxCalls' = 0
    /\ posts' = 0
    /\ atStart' = Artifacts

CallDownloadWeather ==
    /\ AtRest
    /\ entry' = "download_weather"
    /\ EnterWeather
    /\ UNCHANGED <<diskVars, envVars>>

(***************************************************************************)
(* download_weather, lines 61-62: one get_weather_ids per network.  A      *)
(* failed request raises out of download_weather.                          *)
(***************************************************************************)
GetWeatherIdsRetry ==
    /\ pc = "ids"
    /\ \E ans \in DirAnswers(idx) :
          /\ dirCalls' = dirCalls + 1
          /\ ids' = IF ans.ok THEN [ids EXCEPT ![idx] = ans.stations] ELSE ids
          /\ idx' = IF ans.ok THEN idx + 1 ELSE idx
          /\ pc' = IF ans.ok /\ idx = Cardinality(networks) THEN "check" ELSE "ids"
          /\ ret' = ret
    /\ UNCHANGED <<diskVars, envVars, entry, nsub, tasks, seen, pbar_n,
                   pbar_total, wxCalls, posts, atStart>>

GetWeatherIds ==
    /\ pc = "ids"
    /\ \E ans \in DirAnswers(idx) :
          /\ dirCalls' = dirCalls + 1
          /\ IF ans.ok
             THEN /\ ids' = [ids EXCEPT ![idx] = ans.stations]
                  /\ idx' = idx + 1
                  /\ pc' = IF idx = Cardinality(networks) THEN "check" ELSE "ids"
                  /\ ret' = ret
             ELSE /\ pc' = "w_raised"
                  /\ ret' = Raise("DirectoryFetchError")
                  /\ UNCHANGED <<ids, idx>>
    /\ UNCHANGED <<diskVars, envVars, entry, nsub, tasks, seen, pbar_n,
                   pbar_total, wxCalls, posts, atStart>>

(***************************************************************************)
(* download_weather, lines 65-67 and 80-82: the store decides.  With the   *)
(* store present the table is read and returned; otherwise the directory   *)
(* is made and the submissions begin.                                      *)
(***************************************************************************)
StoreExistsNever == FALSE

\* os.path.exists(store)
StoreExists == storeFile.exists

CheckStore ==
    /\ pc = "check"
    /\ IF StoreExists
       THEN \E ok \in IoOutcomes :
              /\ pc' = IF ok THEN "w_done" ELSE "w_raised"
              /\ ret' = IF ok THEN Return(storeFile.rows)
                        ELSE Raise("PersistenceError")
              /\ pbar_total' = pbar_total
       ELSE /\ pc' = IF Groups = {} THEN "wait" ELSE "submit"
            /\ pbar_total' = 0
            /\ ret' = ret
    /\ UNCHANGED <<diskVars, envVars, entry, idx, ids, nsub, tasks, seen,
                   pbar_n, dirCalls, wxCalls, posts, atStart>>

(***************************************************************************)
(* Line 69: e.submit(weather_worker, k, v) for the next group; after the   *)
(* last one, line 70 creates the progress bar with total=len(fs).          *)
(***************************************************************************)
Submit ==
    /\ pc = "submit"
    /\ LET g == NextGroup(nsub) IN
          /\ tasks' = [tasks EXCEPT ![g] = "queued"]
          /\ nsub' = nsub + 1
          /\ pc' = IF nsub + 1 = Cardinality(Groups) THEN "wait" ELSE "submit"
          /\ pbar_total' = IF nsub + 1 = Cardinality(Groups) THEN nsub + 1 ELSE 0
    /\ UNCHANGED <<diskVars, envVars, entry, idx, ids, seen, pbar_n, ret,
                   dirCalls, wxCalls, posts, atStart>>

(***************************************************************************)
(* The executor: a worker thread takes the oldest queued task while fewer  *)
(* than max_workers tasks are running.                                     *)
(***************************************************************************)
WorkerFreeAlways == TRUE

WorkerFree == Cardinality(Running) < max_workers

\* a variant that leaves queued tasks alone once a sibling has failed
StartTaskUnlessFailed(g) ==
    /\ tasks[g] = "queued"
    /\ \A h \in networks : h < g => tasks[h] # "queued"
    /\ \A h \in networks : tasks[h] \in {"none", "queued", "running", "ok"}
    /\ WorkerFree
    /\ tasks' = [tasks EXCEPT ![g] = "running"]
    /\ UNCHANGED <<diskVars, envVars, entry, pc, idx, ids, nsub, seen, pbar_n,
                   pbar_total, ret, dirCalls, wxCalls, posts, atStart>>

StartTask(g) ==
    /\ tasks[g] = "queued"
    /\ \A h \in networks : h < g => tasks[h] # "queued"
    /\ WorkerFree
    /\ tasks' = [tasks EXCEPT ![g] = "running"]
    /\ UNCHANGED <<diskVars, envVars, entry, pc, idx, ids, nsub, seen, pbar_n,
                   pbar_total, ret, dirCalls, wxCalls, posts, atStart>>

(***************************************************************************)
(* weather_worker(k, v), lines 48-50: one request, get_weather, to_csv.    *)
(* An exception stays in the task's future.                                *)
(***************************************************************************)
\* the files of data/weather are kept by the stem of their name
Stem(path) == path[2]

CsvPathShared(k) == <<"data/weather/", 1, ".csv">>

\* line 50: "data/weather/{}.csv".format(k)
CsvPath(k) == <<"data/weather/", k, ".csv">>

\* the exception weather_worker ends with, "ok" when it returns
WorkerOutcome(ans, weather, written) ==
    IF ~ans.ok THEN "RequestError"
    ELSE IF ~weather.ok THEN weather.err
    ELSE IF ~written THEN "OSError"
    ELSE "ok"

RunTask(g) ==
    /\ tasks[g] = "running"
    /\ wxCalls' = wxCalls + 1
    /\ \E ans \in WxAnswers(ids[g]), written \in IoOutcomes :
          LET weather == get_weather(ans, strict)
              outcome == WorkerOutcome(ans, weather, written)
          IN  /\ tasks' = [tasks EXCEPT ![g] = outcome]
              /\ csvFiles' = IF outcome = "ok"
                             THEN [csvFiles EXCEPT ![Stem(CsvPath(g))] =
                                              File(to_csv(weather.rows))]
                             ELSE csvFiles
    /\ UNCHANGED <<storeFile, zipFile, csvFlights, h5Flights, envVars, entry,
                   pc, idx, ids, nsub, seen, pbar_n, pbar_total, ret, dirCalls,
                   posts, atStart>>

(***************************************************************************)
(* Lines 71-72: as_completed yields a finished future, pbar.update(i).     *)
(***************************************************************************)
\* tqdm.update(i): the counter grows by i
Update(n, i) == n + i

AsCompleted ==
    /\ pc = "wait"
    /\ seen < Cardinality(Finished)
    /\ pbar_n' = Update(pbar_n, seen)
    /\ seen' = seen + 1
    /\ UNCHANGED <<diskVars, envVars, entry, pc, idx, ids, nsub, tasks,
                   pbar_total, ret, dirCalls, wxCalls, posts, atStart>>

AllYieldedEarly == TRUE

\* the loop has yielded every future of fs: both with blocks are left
AllYielded == seen = nsub

ExitPool ==
    /\ pc = "wait"
    /\ AllYielded
    /\ pc' = "merge"
    /\ UNCHANGED <<diskVars, envVars, entry, idx, ids, nsub, tasks, seen,
                   pbar_n, pbar_total, ret, dirCalls, wxCalls, posts, atStart>>

(***************************************************************************)
(* Lines 74-79 and 82: read every file of the directory, concatenate,      *)
(* sort, write the store, return.  pd.concat of no file raises ValueError. *)
(***************************************************************************)
ConcatRaisesNever(files) == FALSE

\* pd.concat of an empty list raises ValueError
ConcatRaises(files) == files = {}

MergeAndStore ==
    /\ pc = "merge"
    /\ IF ConcatRaises(Present)
       THEN /\ pc' = "w_raised"
            /\ ret' = Raise("ValueError")
            /\ storeFile' = storeFile
       ELSE \E o \in GlobOrders, ok \in IoOutcomes :
              LET weather == SortIndex(Concat(o)) IN
              /\ pc' = IF ok THEN "w_done" ELSE "w_raised"
              /\ ret' = IF ok THEN Return(weather) ELSE Raise("PersistenceError")
              /\ storeFile' = IF ok THEN File(weather) ELSE storeFile
    /\ UNCHANGED <<csvFiles, zipFile, csvFlights, h5Flights, envVars, entry,
                   weatherLocals, dirCalls, wxCalls, posts, atStart>>

(***************************************************************************)
(* download_flights, lines 128-163.  The table itself is not modelled.     *)
(***************************************************************************)
EnterFlights ==
    /\ pc' = "f_zip"
    /\ idx' = 1
    /\ ids' = [n \in networks |-> {}]
    /\ nsub' = 0
    /\ tasks' = [n \in networks |-> "none"]
    /\ seen' = 0
    /\ pbar_n' = 0
    /\ pbar_total' = 0
    /\ ret' = NoResult
    /\ dirCalls' = 0
    /\ wxCalls' = 0
    /\ posts' = 0
    /\ atStart' = Artifacts

CallDownloadFlights ==
    /\ AtRest
    /\ entry' = "download_flights"
    /\ EnterFlights
    /\ UNCHANGED <<diskVars, envVars>>

ZipCachedNot == ~zipFile

\* os.path.exists(dest), dest = "data/flights.csv.zip"
ZipCached == zipFile

\* lines 146-153: without the ZIP, POST to the portal and write the ZIP
FetchZip ==
    /\ pc = "f_zip"
    /\ IF ZipCached
       THEN /\ pc' = "f_extract"
            /\ UNCHANGED <<zipFile, posts, ret>>
       ELSE \E ok \in IoOutcomes :
              /\ posts' = posts + 1
              /\ zipFile' = ok
              /\ pc' = IF ok THEN "f_extract" ELSE "f_raised"
              /\ ret' = IF ok THEN ret ELSE Raise("RequestError")
    /\ UNCHANGED <<storeFile, csvFiles, csvFlights, h5Flights, envVars, entry,
                   weatherLocals, dirCalls, wxCalls, atStart>>

\* lines 154-155: the first member of the ZIP is extracted under data/
ExtractCsv ==
    /\ pc = "f_extract"
    /\ \E ok \in IoOutcomes :
          /\ csvFlights' = (csvFlights \/ ok)
          /\ pc' = IF ok THEN "f_table" ELSE "f_raised"
          /\ ret' = IF ok THEN ret ELSE Raise("PersistenceError")
    /\ UNCHANGED <<storeFile, csvFiles, zipFile, h5Flights, envVars, entry,
                   weatherLocals, dirCalls, wxCalls, posts, atStart>>

\* lines 157-163: parse the CSV and write flights.h5, or read flights.h5
FlightsTable ==
    /\ pc = "f_table"
    /\ \E ok \in IoOutcomes :
          /\ h5Flights' = (h5Flights \/ ok)
          /\ pc' = IF ok THEN "f_done" ELSE "f_raised"
          /\ ret' = IF ok THEN Return(<<>>) ELSE Raise("PersistenceError")
    /\ UNCHANGED <<storeFile, csvFiles, zipFile, csvFlights, envVars, entry,
                   weatherLocals, dirCalls, wxCalls, posts, atStart>>

(***************************************************************************)
(* download_all, lines 166-168: download_weather(), then                   *)
(* download_flights().  An exception of the first call ends download_all.  *)
(***************************************************************************)
CallDownloadAll ==
    /\ AtRest
    /\ entry' = "download_all"
    /\ EnterWeather
    /\ UNCHANGED <<diskVars, envVars>>

AllThenFlightsAlways ==
    /\ entry = "download_all"
    /\ pc \in {"w_done", "w_raised"}
    /\ EnterFlights
    /\ UNCHANGED <<diskVars, envVars, entry>>

AllThenFlights ==
    /\ entry = "download_all"
    /\ pc = "w_done"
    /\ EnterFlights
    /\ UNCHANGED <<diskVars, envVars, entry>>

(***************************************************************************)
(* get_weather on its own.                                                 *)
(***************************************************************************)
CallGetWeather ==
    /\ gwOut.kind = "none"
    /\ LET weather == get_weather(gwIn, strict) IN
          gwOut' = IF weather.ok THEN Return(weather.rows) ELSE Raise(weather.err)
    /\ UNCHANGED <<networks, faults, strict, gwIn, diskVars, entry, pc,
                   weatherLocals, ret, dirCalls, wxCalls, posts, atStart>>

(***************************************************************************)
(* Specifications.                                                         *)
(***************************************************************************)
InitMain ==
    /\ storeFile = NoFile
    /\ csvFiles = [n \in networks |-> NoFile]
    /\ entry = "none"
    /\ pc = "idle"
    /\ idx = 1
    /\ ids = [n \in networks |-> {}]
    /\ nsub = 0
    /\ tasks = [n \in networks |-> "none"]
    /\ seen = 0
    /\ pbar_n = 0
    /\ pbar_total = 0
    /\ ret = NoResult
    /\ dirCalls = 0
    /\ wxCalls = 0
    /\ posts = 0
    /\ atStart = NoArtifacts

NoFlightFiles ==
    /\ zipFile = FALSE
    /\ csvFlights = FALSE
    /\ h5Flights = FALSE

NoParse ==
    /\ gwIn = Payload(<<>>)
    /\ gwOut = Raise("not called")

\* the pipeline: a fresh data directory, services and disk that may fail
Init ==
    /\ networks = 1..NumNetworks
    /\ faults = TRUE
    /\ strict \in BOOLEAN
    /\ NoFlightFiles
    /\ NoParse
    /\ InitMain

WeatherNext ==
    \/ CallDownloadWeather
    \/ GetWeatherIds
    \/ CheckStore
    \/ Submit
    \/ \E g \in networks : StartTask(g)
    \/ \E g \in networks : RunTask(g)
    \/ AsCompleted
    \/ ExitPool
    \/ MergeAndStore

FlightsNext ==
    \/ CallDownloadFlights
    \/ FetchZip
    \/ ExtractCsv
    \/ FlightsTable

Next ==
    \/ WeatherNext
    \/ FlightsNext
    \/ CallDownloadAll
    \/ AllThenFlights

\* the weather pipeline called on its own
Spec == Init /\ [][WeatherNext]_vars

\* the three entry points, on a disk that may already hold flight files
InitAll ==
    /\ networks = 1..AllNetworks
    /\ faults = TRUE
    /\ strict \in BOOLEAN
    /\ zipFile \in BOOLEAN
    /\ csvFlights \in BOOLEAN
    /\ h5Flights \in BOOLEAN
    /\ NoParse
    /\ InitMain

SpecAll == InitAll /\ [][Next]_vars

\* the pool: more groups than workers, services and disk that answer
InitPool ==
    /\ networks = 1..(max_workers + PoolExtra)
    /\ faults = FALSE
    /\ strict \in BOOLEAN
    /\ NoFlightFiles
    /\ NoParse
    /\ InitMain

SpecPool == InitPool /\ [][WeatherNext]_vars

(***************************************************************************)
(* Scheduling.  The main thread runs on; a worker thread of the executor   *)
(* takes a queued task when it is free; a request returns or fails, so a   *)
(* running task ends; as_completed yields a future that is done.  Nothing  *)
(* obliges the caller to call download_weather again.                      *)
(***************************************************************************)
Fairness ==
    /\ WF_vars(GetWeatherIds)
    /\ WF_vars(CheckStore)
    /\ WF_vars(Submit)
    /\ WF_vars(\E g \in networks : StartTask(g))
    /\ WF_vars(\E g \in networks : RunTask(g))
    /\ WF_vars(AsCompleted)
    /\ WF_vars(ExitPool)
    /\ WF_vars(MergeAndStore)

\* one call of download_weather, with or without a store on the disk
InitOneCall ==
    /\ networks = 1..NumNetworks
    /\ faults = TRUE
    /\ strict \in BOOLEAN
    /\ NoFlightFiles
    /\ NoParse
    /\ storeFile \in {NoFile, File(<<>>)}
    /\ csvFiles = [n \in networks |-> NoFile]
    /\ entry = "none"
    /\ pc = "idle"
    /\ idx = 1
    /\ ids = [n \in networks |-> {}]
    /\ nsub = 0
    /\ tasks = [n \in networks |-> "none"]
    /\ seen = 0
    /\ pbar_n = 0
    /\ pbar_total = 0
    /\ ret = NoResult
    /\ dirCalls = 0
    /\ wxCalls = 0
    /\ posts = 0
    /\ atStart = NoArtifacts

OneCallNext ==
    \/ pc = "idle" /\ CallDownloadWeather
    \/ GetWeatherIds
    \/ CheckStore
    \/ Submit
    \/ \E g \in networks : StartTask(g)
    \/ \E g \in networks : RunTask(g)
    \/ AsCompleted
    \/ ExitPool
    \/ MergeAndStore

\* that call under that scheduling
SpecFair == InitOneCall /\ [][OneCallNext]_vars /\ Fairness

\* get_weather on payloads of up to MaxRows rows with the expected columns
ParseRows(dates) ==
    {RawRow(s, d, "1", bad) :
        s \in 1..2, d \in dates,
        bad \in {{}} \cup {{c} : c \in float_cols}}

\* whether p is a payload of at most maxRows such rows
ParsePayload(p, maxRows) ==
    \E n \in 0..maxRows :
        \E rows \in [1..n -> ParseRows(1..MaxDate)] : p = Payload(rows)

InitParse ==
    /\ networks = 1..1
    /\ faults = FALSE
    /\ strict \in BOOLEAN
    /\ NoFlightFiles
    /\ ParsePayload(gwIn, MaxRows)
    /\ gwOut = NoResult
    /\ InitMain

SpecParse == InitParse /\ [][CallGetWeather]_vars

(***************************************************************************)
(* Properties.                                                             *)
(***************************************************************************)
WeatherPcs == {"ids", "check", "submit", "wait", "merge", "w_done", "w_raised"}

FlightsPcs == {"f_zip", "f_extract", "f_table", "f_done", "f_raised"}

RowsOf(t) == {t[i] : i \in 1..Len(t)}

\* every intermediate file holds rows of its own network's stations only
OwnStationsOnly ==
    \A n \in networks :
        \A r \in RowsOf(csvFiles[n].rows) : r.station \in StationsOf(n)

\* C1: a call of download_weather that finds the store present sends no
\* request to the station directory and none to the weather service, and
\* returns the table the store holds.
C1_NoNetworkOnCachedStore ==
    (pc \in WeatherPcs /\ atStart.store) =>
        /\ dirCalls = 0
        /\ wxCalls = 0
        /\ (pc = "w_done" => ret = Return(storeFile.rows))

\* C2: in a run where the weather service failed some group (no answer,
\* or a payload without the expected columns) and answered another, every
\* other group's task returned and left its file, download_weather does
\* not raise on account of the failed task, the merged table holds the rows
\* of the groups that succeeded and no row of a failed group's stations.
C2_PartialFailureIsolated ==
    LET failed == {g \in networks : tasks[g] \in {"RequestError", "KeyError"}}
        others == {g \in networks : tasks[g] \in {"ok", "ValueError"}}
    IN  ( /\ pc \in {"merge", "w_done", "w_raised"}
          /\ failed # {}
          /\ others # {}
          /\ ret.err # "PersistenceError"
          /\ OwnStationsOnly ) =>
            /\ \A g \in others : tasks[g] = "ok" /\ csvFiles[g].exists
            /\ pc # "w_raised"
            /\ pc = "w_done" =>
                 /\ \A g \in others :
                       RowsOf(read_csv(csvFiles[g].rows)) \subseteq RowsOf(ret.rows)
                 /\ \A g \in failed :
                       \A r \in RowsOf(ret.rows) : r.station \notin ids[g]

\* C3: never more than 10 weather_worker tasks are started and unfinished.
C3_AtMostTenInFlight == Cardinality(Running) <= max_workers

\* C3 witness: the pool is full while a further submitted task waits.
C3_PoolFullWitness ==
    /\ Cardinality(Running) = max_workers
    /\ \E g \in networks : tasks[g] = "queued"

\* C4: from any state in which the store exists, no step changes the store
\* or an intermediate file, no task is queued or running afterwards, no
\* weather request is counted, and a call that returns returns the stored
\* table.
C4_StoreIsShortCircuit ==
    [][storeFile.exists =>
          /\ storeFile' = storeFile
          /\ csvFiles' = csvFiles
          /\ \A g \in networks : tasks'[g] \notin {"queued", "running"}
          /\ wxCalls' \in {wxCalls, 0}
          /\ (pc' = "w_done" => ret' = Return(storeFile.rows))]_vars

\* C4 witness: a call that began with the store present has returned.
C4_CachedCallReturned ==
    /\ pc = "w_done"
    /\ atStart.store
    /\ ret.kind = "return"
    /\ Len(ret.rows) > 0

\* C5: get_weather on a payload with the expected columns returns a table
\* with one row per payload row, a missing-value marker where the token is
\* not numeric and the number elsewhere; it does not raise.
C5_BadTokenBecomesMissing ==
    gwOut.kind # "none" =>
        /\ gwOut.kind = "return"
        /\ Len(gwOut.rows) = Len(gwIn.rows)
        /\ \A i \in 1..Len(gwIn.rows) :
              \E j \in 1..Len(gwOut.rows) :
                 /\ gwOut.rows[j].station = gwIn.rows[i].station
                 /\ gwOut.rows[j].date = gwIn.rows[i].date
                 /\ \A c \in float_cols :
                       gwOut.rows[j].vals[c] =
                          IF gwIn.rows[i].cells[c] = "M" THEN NaN ELSE 1

\* C6: once k completions have been observed the progress counter is k,
\* and the total shown is the number of scheduled tasks.
C6_ProgressCountsCompletions ==
    pc \in {"wait", "merge"} => pbar_n = seen /\ pbar_total = nsub

Ascending(t) == \A i \in 1..(Len(t) - 1) : KeyLeq(t[i], t[i + 1])

StrictlyAscending(t) == \A i \in 1..(Len(t) - 1) : KeyLess(t[i], t[i + 1])

\* no (station, date) pair occurs twice in the intermediate files
NoDuplicateKeys ==
    /\ \A m, n \in networks : m # n => FileKeys(m) \cap FileKeys(n) = {}
    /\ \A n \in networks : Cardinality(FileKeys(n)) = Len(csvFiles[n].rows)

C8_PersistenceFailureSurfaced ==
    pc = "w_done" =>
        /\ \A g \in networks : tasks[g] # "OSError"
        /\ storeFile.exists
        /\ ret = Return(storeFile.rows)

\* C9: while the station ids are fetched nothing is written and nothing is
\* dispatched; each step sends one request and either moves to the next
\* network or, the request having failed, raises DirectoryFetchError
\* without asking again.
C9_DirectoryFailureAborts ==
    [][pc = "ids" =>
          /\ csvFiles' = csvFiles
          /\ storeFile' = storeFile
          /\ \A g \in networks : tasks'[g] = "none"
          /\ nsub' = 0
          /\ wxCalls' = 0
          /\ dirCalls' = dirCalls + 1
          /\ IF ret'.kind = "raise"
             THEN pc' = "w_raised" /\ ret'.err = "DirectoryFetchError" /\ idx' = idx
             ELSE pc' \in {"ids", "check"} /\ idx' = idx + 1]_vars

\* C9 witness: the request for the second network failed after the first
\* had answered.
C9_SecondRequestFailed ==
    /\ pc = "w_raised"
    /\ ret.err = "DirectoryFetchError"
    /\ dirCalls = 2
    /\ ids[1] # {}

C11_AllNeverCallsFlights ==
    entry = "download_all" => pc \notin FlightsPcs

\* C11 amended: download_all invokes download_flights as its next step
\* once its download_weather has returned, and only then: a
\* download_weather that raised ends download_all without it.
C11_AllCallsFlightsAfterWeather ==
    [][entry' = "download_all" =>
          /\ (entry = "download_all" /\ pc = "w_done") => pc' = "f_zip"
          /\ (pc' \in FlightsPcs /\ pc \notin FlightsPcs) =>
                (entry = "download_all" /\ pc = "w_done" /\ ret.kind = "return")]_vars

\* C11 witness: download_flights, invoked by download_all, has returned.
C11_AllRanFlights ==
    /\ entry = "download_all"
    /\ pc = "f_done"

\* C12: the intermediate file a group's task has written holds only rows
\* of stations of that group, whatever the weather service answered.
C12_FileHoldsOwnGroupOnly ==
    \A g \in networks :
        tasks[g] = "ok" =>
            \A r \in RowsOf(csvFiles[Stem(CsvPath(g))].rows) : r.station \in ids[g]

\* C13: the merge starts, and download_weather ends after it, only when
\* every submitted task has finished: none is queued or running.
C13_MergeAfterAllTasks ==
    pc \in {"merge", "w_done", "w_raised"} =>
        /\ \A g \in networks : tasks[g] \notin {"queued", "running"}
        /\ Cardinality(Finished) = nsub

\* C13 witness: the merge is about to read the directory after two tasks,
\* one that returned and one that raised.
C13_MergeAfterMixedOutcomes ==
    /\ pc = "merge"
    /\ nsub = 2
    /\ \E g, h \in networks : tasks[g] = "ok" /\ tasks[h] = "RequestError"

\* C14: an intermediate file changes only in a step of the task of the
\* network it is named after, and a run submits each network's task once:
\* no two tasks of a run write the same path.
C14_TaskOwnsItsFile ==
    [][/\ \A n \in networks :
             csvFiles'[n] # csvFiles[n] =>
                 /\ tasks[n] = "running"
                 /\ tasks'[n] = "ok"
                 /\ \A m \in networks \ {n} : csvFiles'[m] = csvFiles[m]
       /\ \A g \in networks :
             (tasks'[g] = "queued" /\ tasks[g] # "queued") => tasks[g] = "none"]_vars

\* C14 witness: two tasks of one run have written two different files.
C14_TwoTasksTwoFiles ==
    \E g, h \in networks :
        /\ g # h
        /\ tasks[g] = "ok" /\ tasks[h] = "ok"
        /\ CsvPath(g) # CsvPath(h)
        /\ csvFiles[Stem(CsvPath(g))].exists /\ csvFiles[Stem(CsvPath(h))].exists
        /\ csvFiles[Stem(CsvPath(g))] # csvFiles[Stem(CsvPath(h))]

\* C16: in a run that merged after one of its tasks had failed, every row
\* of the merged table comes from a file that a task of this run wrote.
C16_MergedRowsFromThisRun ==
    ( /\ pc = "w_done"
      /\ ~atStart.store
      /\ \E g \in networks : tasks[g] \in {"RequestError", "KeyError", "ValueError", "OSError"} ) =>
        \A r \in RowsOf(ret.rows) :
            \E g \in networks :
                /\ tasks[g] = "ok"
                /\ r \in RowsOf(read_csv(csvFiles[Stem(CsvPath(g))].rows))

\* C17: a merge that finds no intermediate file raises ValueError and
\* leaves the store absent; a store that exists was written with at least
\* one intermediate file present.
C17_NoStoreFromNoFiles ==
    [][/\ (pc = "merge" /\ Present = {}) =>
             /\ pc' = "w_raised"
             /\ ret' = Raise("ValueError")
             /\ ~storeFile'.exists
       /\ storeFile'.exists => Present' # {}]_vars

\* C17 witness: both tasks failed, no file exists, the merge has raised and
\* there is no store.
C17_AllFailedMergeRaised ==
    /\ pc = "w_raised"
    /\ ret = Raise("ValueError")
    /\ nsub = 2
    /\ \A g \in networks : tasks[g] \notin {"none", "queued", "running", "ok"}
    /\ Present = {}
    /\ ~storeFile.exists

====
